---- MODULE Spec2Model ----
(***************************************************************************)
(* Model of the vtk-h and ascent package recipes: the host-config emitter  *)
(* (create_host_config) and the install driver (install).                  *)
(*                                                                         *)
(* A host-config file is a sequence of lines.  A line is a record          *)
(* [k, name, value, vtype]: k = "set" for a cache entry                    *)
(* set(<name> "<value>" CACHE <vtype> ""), k = "text" for a comment line   *)
(* (its text in value) and k = "blank" for an empty line.                  *)
(* A path is a sequence of components; an absolute path starts with "/".   *)
(* A command-line argument is a sequence of tokens, so that                *)
(* arg.count("RPATH") is a count of tokens.                                *)
(***************************************************************************)
EXTENDS Integers, Sequences, FiniteSets, TLC

\* longest list of orchestrator-supplied default arguments that is enumerated
MaxArgs == 3
\* number of times create_host_config is called in one behaviour
MaxRuns == 2

VARIABLES
    pkg,             \* the recipe: "vtkh" or "ascent"
    spec,            \* result of ("+v" in spec) for every variant v the recipe queries
    deps,            \* names of the dependencies present in the resolved spec
    env,             \* environment: compiler variables, SYS_TYPE, files, ...
    std_cmake_args,  \* the orchestrator's default cmake arguments
    cwd,             \* current working directory
    fs,              \* file system: path -> sequence of lines
    open_files,      \* paths with a file handle that was opened and not closed
    ret,             \* value returned by the last create_host_config, or NoPath
    err,             \* error raised by the last call or step, or NoError
    pc,              \* position of install ("caller": create_host_config is called directly)
    cmake_args,      \* argument list handed to cmake by install
    trace,           \* steps of install executed so far, in order
    runs,            \* number of create_host_config calls so far
    first_out        \* what the first create_host_config call left behind

vars == <<pkg, spec, deps, env, std_cmake_args, cwd, fs, open_files, ret, err,
          pc, cmake_args, trace, runs, first_out>>

----------------------------------------------------------------------------
(* Values *)

None == "None"
NoPath == <<>>
NoError == [type |-> "none", msg |-> ""]
RuntimeError(m) == [type |-> "RuntimeError", msg |-> m]
\* a command of the build that ends with a non-zero status
ProcessError(cmd) == [type |-> "ProcessError", msg |-> cmd]
KeyError(k) == [type |-> "KeyError", msg |-> k]

StageDir == <<"/", "stage">>
Prefix == <<"/", "prefix">>
Hostname == "node1"
Architecture == "linux-rhel7-x86_64"
Compiler == "gcc@7.3.0"
SitePackagesDir == "/prefix/lib/python2.7/site-packages"

Text(t) == [k |-> "text", name |-> "", value |-> t, vtype |-> ""]
Blank == [k |-> "blank", name |-> "", value |-> "", vtype |-> ""]
SetLine(n, v, t) == [k |-> "set", name |-> n, value |-> v, vtype |-> t]

\* cfg.write("...\n") and cfg.write("...\n\n")
W(t) == <<Text(t)>>
W2(t) == <<Text(t), Blank>>

\* "+v" in spec
Has(s, v) == v \in DOMAIN s /\ s[v]

\* spec[d].prefix, join_path
DepPrefix(d) == "/spack/opt/" \o d
join_path(a, b) == a \o "/" \o b

RECURSIVE Join(_)
\* ' '.join(list)
Join(l) ==
    IF l = <<>> THEN ""
    ELSE IF Len(l) = 1 THEN l[1]
    ELSE l[1] \o " " \o Join(Tail(l))

\* spec["cmake"].satisfies('@3.10:')
satisfies_3_1(v) == v[1] > 3 \/ (v[1] = 3 /\ v[2] >= 1)
satisfies_3_10(v) == v[1] > 3 \/ (v[1] = 3 /\ v[2] >= 10)

isabs(p) == p # <<>> /\ p[1] = "/"
\* the file a name given to open() stands for
resolve(dir, p) == IF isabs(p) THEN p ELSE dir \o p
\* os.path.abspath
abspath_rel(dir, p) == p
abspath(dir, p) == IF isabs(p) THEN p ELSE dir \o p

\* content of a file right after open(name, "w")
OpenAppend(files, p) == IF p \in DOMAIN files THEN files[p] ELSE <<>>
OpenWrite(files, p) == <<>>

\* a part of create_host_config: the dependencies it looks up in the spec
\* (a KeyError when one is absent) and the lines it then writes
Seg(needs, out) == [needs |-> needs, out |-> out]

RECURSIVE Emit(_, _, _)
Emit(segs, d, acc) ==
    IF segs = <<>> THEN [lines |-> acc, err |-> NoError]
    ELSE IF ~(Head(segs).needs \subseteq d)
         THEN [lines |-> acc,
               err |-> KeyError(CHOOSE x \in Head(segs).needs : x \notin d)]
         ELSE Emit(Tail(segs), d, acc \o Head(segs).out)

Bar == "##################################"

----------------------------------------------------------------------------
(* vtk-h *)

VtkhVariants == {"shared", "test", "mpi", "serial", "cuda", "openmp",
                 "logging", "contourtree"}

VtkhDefaults ==
    [shared |-> TRUE, test |-> TRUE, mpi |-> TRUE, serial |-> TRUE,
     cuda |-> FALSE, openmp |-> TRUE, logging |-> FALSE, contourtree |-> FALSE]

VtkhDeclaredDeps(s) ==
    {"cmake", "vtk-m"}
    \cup (IF Has(s, "mpi") THEN {"mpi"} ELSE {})
    \cup (IF Has(s, "cuda") THEN {"cuda"} ELSE {})

vtkh_cmake_cache_entry(name, value, vtype) ==
    LET t == IF vtype = None
             THEN IF value = "ON" \/ value = "OFF" THEN "BOOL" ELSE "PATH"
             ELSE vtype
    IN <<SetLine(name, value, t), Blank>>

VtkhEntry(name, value) == vtkh_cmake_cache_entry(name, value, None)

VtkhSysType(e) == IF e.SYS_TYPE # None THEN e.SYS_TYPE ELSE Architecture

VtkhFname(e) ==
    Hostname \o "-" \o VtkhSysType(e) \o "-" \o Compiler \o "-vtkh.cmake"

VtkhHeader(e) ==
    W(Bar) \o W("# spack generated host-config") \o W(Bar)
    \o W("# " \o VtkhSysType(e) \o "-" \o Compiler) \o W2(Bar)
    \o W("# cmake from spack ")
    \o W2("# cmake executable path: " \o join_path(DepPrefix("cmake"), "bin/cmake"))
    \o W("#######") \o W("# using " \o Compiler \o " compiler spec") \o W2("#######")
    \o W("# c compiler used by spack")
    \o VtkhEntry("CMAKE_C_COMPILER", e.SPACK_CC)
    \o W("# cpp compiler used by spack")
    \o VtkhEntry("CMAKE_CXX_COMPILER", e.SPACK_CXX)

VtkhSharedNoForce(s) ==
    IF Has(s, "shared") THEN VtkhEntry("BUILD_SHARED_LIBS", "ON")
    ELSE VtkhEntry("BUILD_SHARED_LIBS", "OFF")
VtkhShared(s) ==
    IF Has(s, "cuda") THEN VtkhEntry("BUILD_SHARED_LIBS", "OFF")
    ELSE IF Has(s, "shared") THEN VtkhEntry("BUILD_SHARED_LIBS", "ON")
         ELSE VtkhEntry("BUILD_SHARED_LIBS", "OFF")

VtkhCompilerFlags(e) ==
    LET cf == e.compiler_flags
        cpp0 == Join(cf.cppflags)
        cppflags == IF cpp0 # "" THEN cpp0 \o " " ELSE cpp0
        cflags == cppflags \o Join(cf.cflags)
        cxxflags == cppflags \o Join(cf.cxxflags)
        fflags == Join(cf.fflags)
    IN (IF cflags # "" THEN VtkhEntry("CMAKE_C_FLAGS", cflags) ELSE <<>>)
       \o (IF cxxflags # "" THEN VtkhEntry("CMAKE_CXX_FLAGS", cxxflags) ELSE <<>>)
       \o (IF fflags # "" THEN VtkhEntry("CMAKE_Fortran_FLAGS", fflags) ELSE <<>>)

VtkhTests(s) ==
    IF Has(s, "test")
    THEN VtkhEntry("ENABLE_TESTS", "OFF") \o VtkhEntry("BUILD_TESTING", "OFF")
    ELSE VtkhEntry("ENABLE_TESTS", "ON") \o VtkhEntry("BUILD_TESTING", "ON")

\* the "logging" option block
VtkhLogging(s) ==
    IF Has(s, "logging") THEN VtkhEntry("ENABLE_LOGGING", "ON")
    ELSE VtkhEntry("ENABLE_LOGGING", "OFF")

\* the "Logging" section, after the "Serial" section
VtkhLoggingSection(s) ==
    IF Has(s, "logging") THEN VtkhEntry("ENABLE_LOGGING", "ON")
    ELSE VtkhEntry("ENABLE_LOGGING", "OFF")

VtkhContourTree(s) ==
    IF Has(s, "contourtree") THEN VtkhEntry("ENABLE_FILTER_CONTOUR_TREE", "ON")
    ELSE VtkhEntry("ENABLE_FILTER_CONTOUR_TREE", "OFF")

VtkhOpenmp(s) ==
    W("# enable openmp support")
    \o (IF Has(s, "openmp") THEN VtkhEntry("ENABLE_OPENMP", "ON")
        ELSE VtkhEntry("ENABLE_OPENMP", "OFF"))

VtkhVtkm ==
    <<Seg({}, W("# vtk-m support ") \o W("# vtk-m from spack")),
      Seg({"vtk-m"}, VtkhEntry("VTKM_DIR", DepPrefix("vtk-m")))>>

VtkhSerial(s) ==
    IF Has(s, "serial") THEN VtkhEntry("ENABLE_SERIAL", "ON")
    ELSE VtkhEntry("ENABLE_SERIAL", "OFF")

VtkhMpi(s, e) ==
    IF Has(s, "mpi")
    THEN LET cray == e.SPACK_CXX = "CC"
             mpicc_path == IF cray THEN "cc" ELSE join_path(DepPrefix("mpi"), "bin/mpicc")
             mpicxx_path == IF cray THEN "CC" ELSE join_path(DepPrefix("mpi"), "bin/mpicxx")
             mpifc_path == IF cray THEN "ftn" ELSE join_path(DepPrefix("mpi"), "bin/mpif90")
             mpiexe_bin == join_path(join_path(DepPrefix("mpi"), "bin"), "mpiexec")
         IN <<Seg({"mpi"},
                  VtkhEntry("ENABLE_MPI", "ON")
                  \o VtkhEntry("MPI_C_COMPILER", mpicc_path)
                  \o VtkhEntry("MPI_CXX_COMPILER", mpicxx_path)
                  \o VtkhEntry("MPI_Fortran_COMPILER", mpifc_path)
                  \o (IF e.mpiexec_isfile
                      THEN IF satisfies_3_10(e.cmake_version)
                           THEN VtkhEntry("MPIEXEC_EXECUTABLE", mpiexe_bin)
                           ELSE VtkhEntry("MPIEXEC", mpiexe_bin)
                      ELSE <<>>))>>
    ELSE <<Seg({}, VtkhEntry("ENABLE_MPI", "OFF"))>>

VtkhCuda(s, e) ==
    IF Has(s, "cuda")
    THEN VtkhEntry("ENABLE_CUDA", "ON")
         \o VtkhEntry("VTKm_ENABLE_CUDA:BOOL", "ON")
         \o VtkhEntry("CMAKE_CUDA_HOST_COMPILER", e.SPACK_CXX)
    ELSE VtkhEntry("VTKm_ENABLE_CUDA:BOOL", "OFF")
         \o VtkhEntry("ENABLE_CUDA", "OFF")

Footer == W(Bar) \o W("# end spack generated host-config") \o W(Bar)

\* the writes of VtkH.create_host_config, in order
VtkhSegments(s, e) ==
    <<Seg({}, VtkhHeader(e) \o VtkhShared(s) \o VtkhCompilerFlags(e)
              \o VtkhTests(s) \o VtkhLogging(s) \o VtkhContourTree(s)
              \o VtkhOpenmp(s))>>
    \o VtkhVtkm
    \o <<Seg({}, VtkhSerial(s) \o VtkhLoggingSection(s) \o W("# MPI Support"))>>
    \o VtkhMpi(s, e)
    \o <<Seg({}, W("# CUDA Support") \o VtkhCuda(s, e) \o Footer)>>

----------------------------------------------------------------------------
(* ascent *)

AscentVariants == {"shared", "mpi", "python", "vtkh", "openmp", "cuda",
                   "mfem", "adios", "doc"}

AscentDefaults ==
    [shared |-> TRUE, mpi |-> TRUE, python |-> TRUE, vtkh |-> TRUE,
     openmp |-> TRUE, cuda |-> FALSE, mfem |-> FALSE, adios |-> FALSE,
     doc |-> FALSE]

AscentDeclaredDeps(s) ==
    {"cmake"}
    \cup (IF (Has(s, "python") /\ Has(s, "shared")) \/ ~Has(s, "shared")
          THEN {"conduit"} ELSE {})
    \cup (IF Has(s, "python") /\ Has(s, "shared") THEN {"python", "py-numpy"} ELSE {})
    \cup (IF Has(s, "mpi") THEN {"mpi"} ELSE {})
    \cup (IF Has(s, "mpi") /\ Has(s, "python") /\ Has(s, "shared")
          THEN {"py-mpi4py"} ELSE {})
    \cup (IF Has(s, "vtkh") THEN {"vtkh"} ELSE {})
    \cup (IF Has(s, "mfem") THEN {"mfem"} ELSE {})
    \cup (IF Has(s, "adios") THEN {"adios"} ELSE {})
    \cup (IF Has(s, "python") /\ Has(s, "doc") THEN {"py-sphinx"} ELSE {})

ascent_cmake_cache_entry(name, value) == <<SetLine(name, value, "PATH"), Blank>>

\* f_compiler: env["SPACK_FC"] when a Fortran compiler is configured and the file exists
FCompilerNoCheck(e) == IF e.has_fc THEN e.SPACK_FC ELSE None
FCompiler(e) == IF e.has_fc /\ e.fc_isfile THEN e.SPACK_FC ELSE None

AscentSysType(e) == IF e.SYS_TYPE # None THEN e.SYS_TYPE ELSE Architecture

CMakeNotFoundMsg == "failed to find CMake (and cmake variant is off)"

\* the error of the cmake lookup, before the file is opened
FindCMakeNoRaise(s, d, e) ==
    IF Has(s, "cmake") /\ "cmake" \notin d THEN KeyError("cmake") ELSE NoError
FindCMake(s, d, e) ==
    IF Has(s, "cmake")
    THEN IF "cmake" \in d THEN NoError ELSE KeyError("cmake")
    ELSE IF e.which_cmake = None THEN RuntimeError(CMakeNotFoundMsg)
         ELSE NoError

CMakeExe(s, e) ==
    IF Has(s, "cmake") THEN join_path(DepPrefix("cmake"), "bin/cmake")
    ELSE e.which_cmake

AscentFname(e) ==
    Hostname \o "-" \o AscentSysType(e) \o "-" \o Compiler \o "-ascent.cmake"

AscentHeader(s, e) ==
    W(Bar) \o W("# spack generated host-config") \o W(Bar)
    \o W("# " \o AscentSysType(e) \o "-" \o Compiler) \o W2(Bar)
    \o W("# cmake from spack ")
    \o W2("# cmake executable path: " \o CMakeExe(s, e))
    \o W("#######") \o W("# using " \o Compiler \o " compiler spec") \o W2("#######")
    \o W("# c compiler used by spack")
    \o ascent_cmake_cache_entry("CMAKE_C_COMPILER", e.SPACK_CC)
    \o W("# cpp compiler used by spack")
    \o ascent_cmake_cache_entry("CMAKE_CXX_COMPILER", e.SPACK_CXX)

AscentFortran(e) ==
    W("# fortran compiler used by spack")
    \o (IF FCompiler(e) # None
        THEN ascent_cmake_cache_entry("ENABLE_FORTRAN", "ON")
             \o ascent_cmake_cache_entry("CMAKE_Fortran_COMPILER", FCompiler(e))
        ELSE W2("# no fortran compiler found")
             \o ascent_cmake_cache_entry("ENABLE_FORTRAN", "OFF"))

AscentShared(s) ==
    IF Has(s, "shared") THEN ascent_cmake_cache_entry("BUILD_SHARED_LIBS", "ON")
    ELSE ascent_cmake_cache_entry("BUILD_SHARED_LIBS", "OFF")

AscentConduit ==
    <<Seg({}, W("# conduit from spack ")),
      Seg({"conduit"}, ascent_cmake_cache_entry("CONDUIT_DIR", DepPrefix("conduit")))>>

AscentPython(s, py_site_pkgs_dir) ==
    IF Has(s, "python")
    THEN <<Seg({}, W("# Python Support") \o W("# Enable python module builds")
                   \o ascent_cmake_cache_entry("ENABLE_PYTHON", "ON")
                   \o W("# python from spack ")),
           Seg({"python"},
               ascent_cmake_cache_entry("PYTHON_EXECUTABLE",
                                        join_path(DepPrefix("python"), "bin/python"))
               \o (IF py_site_pkgs_dir # None
                   THEN ascent_cmake_cache_entry("PYTHON_MODULE_INSTALL_PREFIX",
                                                 py_site_pkgs_dir)
                   ELSE <<>>))>>
    ELSE <<Seg({}, W("# Python Support")
                   \o ascent_cmake_cache_entry("ENABLE_PYTHON", "OFF"))>>

AscentDocs(s) ==
    IF Has(s, "doc") /\ Has(s, "python")
    THEN <<Seg({}, ascent_cmake_cache_entry("ENABLE_DOCS", "ON")
                   \o W("# sphinx from spack ")),
           Seg({"py-sphinx"},
               ascent_cmake_cache_entry("SPHINX_EXECUTABLE",
                   join_path(join_path(DepPrefix("py-sphinx"), "bin"), "sphinx-build")))>>
    ELSE <<Seg({}, ascent_cmake_cache_entry("ENABLE_DOCS", "OFF"))>>

AscentMpi(s, e) ==
    IF Has(s, "mpi")
    THEN LET mpiexe_bin == join_path(join_path(DepPrefix("mpi"), "bin"), "mpiexec")
         IN <<Seg({}, W("# MPI Support")
                      \o ascent_cmake_cache_entry("ENABLE_MPI", "ON")),
              Seg({"mpi"},
                  ascent_cmake_cache_entry("MPI_C_COMPILER",
                                           join_path(DepPrefix("mpi"), "bin/mpicc"))
                  \o ascent_cmake_cache_entry("MPI_CXX_COMPILER",
                                              join_path(DepPrefix("mpi"), "bin/mpicxx"))
                  \o ascent_cmake_cache_entry("MPI_Fortran_COMPILER",
                                              join_path(DepPrefix("mpi"), "bin/mpif90"))
                  \o (IF e.mpiexec_isfile
                      THEN IF satisfies_3_10(e.cmake_version)
                           THEN ascent_cmake_cache_entry("MPIEXEC_EXECUTABLE", mpiexe_bin)
                           ELSE ascent_cmake_cache_entry("MPIEXEC", mpiexe_bin)
                      ELSE <<>>))>>
    ELSE <<Seg({}, W("# MPI Support")
                   \o ascent_cmake_cache_entry("ENABLE_MPI", "OFF"))>>

\* the order of the two entries follows a flag
AscentCudaOpenmpByFlag(s) ==
    W("# CUDA Support")
    \o (IF Has(s, "cuda")
        THEN ascent_cmake_cache_entry("ENABLE_CUDA", "ON")
             \o ascent_cmake_cache_entry("ENABLE_OPENMP", IF Has(s, "openmp") THEN "ON" ELSE "OFF")
        ELSE ascent_cmake_cache_entry("ENABLE_OPENMP", IF Has(s, "openmp") THEN "ON" ELSE "OFF")
             \o ascent_cmake_cache_entry("ENABLE_CUDA", "OFF"))
AscentCudaOpenmp(s) ==
    W("# CUDA Support")
    \o (IF Has(s, "cuda") THEN ascent_cmake_cache_entry("ENABLE_CUDA", "ON")
        ELSE ascent_cmake_cache_entry("ENABLE_CUDA", "OFF"))
    \o (IF Has(s, "openmp") THEN ascent_cmake_cache_entry("ENABLE_OPENMP", "ON")
        ELSE ascent_cmake_cache_entry("ENABLE_OPENMP", "OFF"))

AscentVtkh(s) ==
    IF Has(s, "vtkh")
    THEN <<Seg({}, W("# vtk-h support ") \o W("# vtk-m from spack")),
           Seg({"vtkm"}, ascent_cmake_cache_entry("VTKM_DIR", DepPrefix("vtkm"))
                         \o W("# vtk-h from spack")),
           Seg({"vtkh"}, ascent_cmake_cache_entry("VTKH_DIR", DepPrefix("vtkh")))>>
    ELSE <<Seg({}, W("# vtk-h support ") \o W("# vtk-h not built by spack "))>>

AscentMfem(s) ==
    IF Has(s, "mfem")
    THEN <<Seg({}, W("# mfem from spack ")),
           Seg({"mfem"}, ascent_cmake_cache_entry("MFEM_DIR", DepPrefix("mfem")))>>
    ELSE <<Seg({}, W("# mfem not built by spack "))>>

AscentAdios(s) ==
    IF Has(s, "adios")
    THEN <<Seg({}, W("# adios support")),
           Seg({"adios"}, ascent_cmake_cache_entry("ADIOS_DIR", DepPrefix("adios")))>>
    ELSE <<Seg({}, W("# adios support") \o W("# adios not built by spack "))>>

\* the dependencies Ascent.create_host_config looks up in the spec
AscentLookups(s) ==
    {"conduit"}
    \cup (IF Has(s, "cmake") THEN {"cmake"} ELSE {})
    \cup (IF Has(s, "python") THEN {"python"} ELSE {})
    \cup (IF Has(s, "doc") /\ Has(s, "python") THEN {"py-sphinx"} ELSE {})
    \cup (IF Has(s, "mpi") THEN {"mpi"} ELSE {})
    \cup (IF Has(s, "vtkh") THEN {"vtkm", "vtkh"} ELSE {})
    \cup (IF Has(s, "mfem") THEN {"mfem"} ELSE {})
    \cup (IF Has(s, "adios") THEN {"adios"} ELSE {})

\* the writes of Ascent.create_host_config, in order
AscentSegments(s, e, py_site_pkgs_dir) ==
    <<Seg({}, AscentHeader(s, e) \o AscentFortran(e) \o AscentShared(s))>>
    \o AscentConduit
    \o AscentPython(s, py_site_pkgs_dir)
    \o AscentDocs(s)
    \o AscentMpi(s, e)
    \o <<Seg({}, AscentCudaOpenmp(s))>>
    \o AscentVtkh(s)
    \o AscentMfem(s)
    \o AscentAdios(s)
    \o <<Seg({}, Footer)>>

----------------------------------------------------------------------------
(* create_host_config, both recipes *)

Fname(p, e) == IF p = "vtkh" THEN VtkhFname(e) ELSE AscentFname(e)

\* error raised before the file is opened
PreOpenError(p, s, d, e) ==
    IF p = "vtkh"
    THEN IF "cmake" \in d THEN NoError ELSE KeyError("cmake")
    ELSE FindCMake(s, d, e)

Segments(p, s, e, py_site_pkgs_dir) ==
    IF p = "vtkh" THEN VtkhSegments(s, e)
    ELSE AscentSegments(s, e, py_site_pkgs_dir)

\* cfg.close(): the handles left open
Close(open, p) == open \ {p}

\* The outcome of one call: the error raised (or NoError), the file system and
\* the open handles it leaves, and the value returned (NoPath when it raises).
create_host_config(p, s, d, e, py_site_pkgs_dir, dir, files, open) ==
    LET pre == PreOpenError(p, s, d, e)
        host_cfg_fname == <<Fname(p, e)>>
        path == resolve(dir, host_cfg_fname)
        out == Emit(Segments(p, s, e, py_site_pkgs_dir), d, OpenWrite(files, path))
        written == (path :> out.lines) @@ files
    IN IF pre # NoError
       THEN [err |-> pre, fs |-> files, open |-> open, ret |-> NoPath]
       ELSE IF out.err # NoError
            THEN [err |-> out.err, fs |-> written,
                  open |-> open \cup {path}, ret |-> NoPath]
            ELSE [err |-> NoError, fs |-> written,
                  open |-> Close(open \cup {path}, path),
                  ret |-> abspath(dir, host_cfg_fname)]

----------------------------------------------------------------------------
(* install, both recipes *)

\* arg.count(tok)
Count(arg, tok) == Cardinality({i \in DOMAIN arg : arg[i] = tok})

\* the test of the static branch: the argument is kept
KeepsRpath(arg) == TRUE
NoRpath(arg) == Count(arg, "RPATH") = 0

RECURSIVE VtkhLoop(_, _, _)
\* for arg in std_cmake_args: ... cmake_args.append(arg)
VtkhLoop(args, s, acc) ==
    IF args = <<>> THEN acc
    ELSE LET arg == Head(args)
         IN VtkhLoop(Tail(args), s,
                IF Count(arg, "CMAKE_BUILD_TYPE") = 0
                THEN IF Has(s, "shared") THEN Append(acc, arg)
                     ELSE IF NoRpath(arg) THEN Append(acc, arg) ELSE acc
                ELSE acc)

VtkhCMakeArgsKeepBuildType(s, std, host_cfg_fname) ==
    SelectSeq(std, LAMBDA arg : Has(s, "shared") \/ NoRpath(arg))
    \o << <<"-D", "CMAKE_BUILD_TYPE", "=Release">> >>
    \o << <<"-C">>, host_cfg_fname, <<"..", "src">> >>
VtkhCMakeArgs(s, std, host_cfg_fname) ==
    VtkhLoop(std, s, <<>>)
    \o << <<"-D", "CMAKE_BUILD_TYPE", "=Release">> >>
    \o << <<"-C">>, host_cfg_fname, <<"..", "src">> >>

RECURSIVE AscentLoop(_, _)
AscentLoop(args, acc) ==
    IF args = <<>> THEN acc
    ELSE AscentLoop(Tail(args),
                    IF NoRpath(Head(args)) THEN Append(acc, Head(args)) ELSE acc)

AscentCMakeArgs(s, std, host_cfg_fname) ==
    (IF Has(s, "shared") THEN std ELSE AscentLoop(std, <<>>))
    \o << <<"-C">>, host_cfg_fname, <<"..", "src">> >>

CMakeArgs(p, s, std, host_cfg_fname) ==
    IF p = "vtkh" THEN VtkhCMakeArgs(s, std, host_cfg_fname)
    ELSE AscentCMakeArgs(s, std, host_cfg_fname)

\* the site-packages argument install passes to create_host_config
InstallPySitePkgsDir(p, s) ==
    IF p = "ascent" /\ Has(s, "python") THEN SitePackagesDir ELSE None

\* the statements of install, in order
StepAfterCopyEarly(step) ==
    CASE step = "start" -> "generate"
      [] step = "generate" -> "configure"
      [] step = "configure" -> "build"
      [] step = "build" -> "copy"
      [] step = "copy" -> "install"
      [] step = "install" -> "done"
StepAfter(step) ==
    CASE step = "start" -> "generate"
      [] step = "generate" -> "configure"
      [] step = "configure" -> "build"
      [] step = "build" -> "install"
      [] step = "install" -> "copy"
      [] step = "copy" -> "done"

\* where install continues after a step: an exception leaves install
AfterStepIgnoringFailure(step, ok) == StepAfter(step)
AfterStep(step, ok) == IF ok THEN StepAfter(step) ELSE "aborted"

\* the working directory after a step: working_dir restores it on the way out
CwdAfter(next, dir) == IF next \in {"done", "aborted"} THEN StageDir ELSE dir

BuildDir == StageDir \o <<"spack-build">>

\* with working_dir('spack-build', create=True)
EnterBuildDir ==
    /\ pc = "start"
    /\ cwd' = BuildDir
    /\ trace' = Append(trace, "working_dir")
    /\ pc' = AfterStep("start", TRUE)
    /\ UNCHANGED <<pkg, spec, deps, env, std_cmake_args, fs, open_files, ret, err,
                   cmake_args, runs, first_out>>

Outcome(r) == [ret |-> r.ret, err |-> r.err, fs |-> r.fs]

\* host_cfg_fname = self.create_host_config(spec, prefix, ...)
GenerateHostConfig ==
    /\ pc = "generate"
    /\ LET r == create_host_config(pkg, spec, deps, env,
                                   InstallPySitePkgsDir(pkg, spec),
                                   cwd, fs, open_files)
           next == AfterStep("generate", r.err = NoError)
       IN /\ fs' = r.fs
          /\ open_files' = r.open
          /\ ret' = r.ret
          /\ err' = r.err
          /\ pc' = next
          /\ cwd' = CwdAfter(next, cwd)
          /\ first_out' = IF runs = 0 THEN Outcome(r) ELSE first_out
    /\ runs' = runs + 1
    /\ trace' = Append(trace, "create_host_config")
    /\ UNCHANGED <<pkg, spec, deps, env, std_cmake_args, cmake_args>>

\* an external command of the build: it creates `made` when it succeeds
RunStep(step, name, made, ok) ==
    /\ pc = step
    /\ trace' = Append(trace, name)
    /\ fs' = IF ok THEN (made :> <<>>) @@ fs ELSE fs
    /\ err' = IF ok THEN err ELSE ProcessError(name)
    /\ pc' = AfterStep(step, ok)
    /\ cwd' = CwdAfter(AfterStep(step, ok), cwd)

\* cmake_args = [...]; cmake(*cmake_args)
Configure ==
    /\ \E ok \in BOOLEAN : RunStep("configure", "cmake", cwd \o <<"CMakeCache.txt">>, ok)
    /\ cmake_args' = CMakeArgs(pkg, spec, std_cmake_args, ret)
    /\ UNCHANGED <<pkg, spec, deps, env, std_cmake_args, open_files, ret,
                   runs, first_out>>

\* make()
Build ==
    /\ \E ok \in BOOLEAN : RunStep("build", "make", cwd \o <<"lib">>, ok)
    /\ UNCHANGED <<pkg, spec, deps, env, std_cmake_args, open_files, ret,
                   cmake_args, runs, first_out>>

\* make("install")
MakeInstall ==
    /\ \E ok \in BOOLEAN : RunStep("install", "make install", Prefix \o <<"lib">>, ok)
    /\ UNCHANGED <<pkg, spec, deps, env, std_cmake_args, open_files, ret,
                   cmake_args, runs, first_out>>

\* install(host_cfg_fname, prefix)
CopyHostConfig ==
    /\ pc = "copy"
    /\ trace' = Append(trace, "install host-config")
    /\ fs' = (Prefix \o <<ret[Len(ret)]>> :> fs[ret]) @@ fs
    /\ pc' = AfterStep("copy", TRUE)
    /\ cwd' = CwdAfter(AfterStep("copy", TRUE), cwd)
    /\ UNCHANGED <<pkg, spec, deps, env, std_cmake_args, open_files, ret, err,
                   cmake_args, runs, first_out>>

\* create_host_config called on its own (a subclass, a re-run in the same directory)
CallCreateHostConfig ==
    /\ pc = "caller"
    /\ runs < MaxRuns
    /\ LET r == create_host_config(pkg, spec, deps, env, env.py_site_pkgs_dir,
                                   cwd, fs, open_files)
       IN /\ fs' = r.fs
          /\ open_files' = r.open
          /\ ret' = r.ret
          /\ err' = r.err
          /\ first_out' = IF runs = 0 THEN Outcome(r) ELSE first_out
    /\ runs' = runs + 1
    /\ UNCHANGED <<pkg, spec, deps, env, std_cmake_args, cwd, pc, cmake_args, trace>>

----------------------------------------------------------------------------
(* Inputs *)

Recipes == {"vtkh", "ascent"}

\* what create_host_config asks the spec: the recipe's variants, and for
\* ascent "+cmake", which only a dependency's variant can satisfy
Queried(p) == IF p = "vtkh" THEN VtkhVariants ELSE AscentVariants \cup {"cmake"}

DeclaredDeps(p, s) == IF p = "vtkh" THEN VtkhDeclaredDeps(s) ELSE AscentDeclaredDeps(s)

\* dependencies ascent reads without declaring them for the combination: they
\* are in the spec only if a declared dependency brings them
Transitive(p, s) ==
    IF p = "vtkh" THEN {}
    ELSE (IF Has(s, "vtkh") THEN {"vtkm"} ELSE {})
         \cup (IF Has(s, "mfem") /\ "conduit" \notin AscentDeclaredDeps(s)
               THEN {"conduit"} ELSE {})
         \cup (IF Has(s, "python") /\ Has(s, "doc") /\ "python" \notin AscentDeclaredDeps(s)
               THEN {"python"} ELSE {})

NoFlags == [cppflags |-> <<>>, cflags |-> <<>>, cxxflags |-> <<>>, fflags |-> <<>>]

FlagSets(p) ==
    IF p = "vtkh"
    THEN {NoFlags,
          [cppflags |-> <<"-DNDEBUG">>, cflags |-> <<>>, cxxflags |-> <<"-O2">>,
           fflags |-> <<>>],
          [cppflags |-> <<>>, cflags |-> <<"-O2", "-g">>, cxxflags |-> <<>>,
           fflags |-> <<"-O2">>]}
    ELSE {NoFlags}

Toolchains(p) ==
    {[cc |-> "/usr/bin/gcc", cxx |-> "/usr/bin/g++"]}
    \cup (IF p = "vtkh" THEN {[cc |-> "cc", cxx |-> "CC"]} ELSE {})

\* cmake versions the recipe's depends_on admits
CMakeVersions(p) == IF p = "vtkh" THEN {<<3, 14>>} ELSE {<<3, 9>>}

Envs(p, s, d) ==
    {[SPACK_CC |-> tc.cc, SPACK_CXX |-> tc.cxx,
      has_fc |-> fc[1], fc_isfile |-> fc[2], SPACK_FC |-> "/usr/bin/gfortran",
      SYS_TYPE |-> st, which_cmake |-> wh, mpiexec_isfile |-> mx,
      compiler_flags |-> cf, cmake_version |-> cv, py_site_pkgs_dir |-> py] :
        tc \in Toolchains(p),
        fc \in IF p = "ascent" THEN {<<FALSE, FALSE>>, <<TRUE, FALSE>>, <<TRUE, TRUE>>}
               ELSE {<<TRUE, TRUE>>},
        st \in {None, "toss_3_x86_64_ib"},
        wh \in IF p = "ascent" /\ ~Has(s, "cmake") THEN {None, "/usr/bin/cmake"}
               ELSE {"/usr/bin/cmake"},
        mx \in IF Has(s, "mpi") /\ "mpi" \in d THEN BOOLEAN ELSE {FALSE},
        cf \in FlagSets(p),
        cv \in CMakeVersions(p),
        py \in IF p = "ascent" /\ Has(s, "python") THEN {None, SitePackagesDir}
               ELSE {None}}

NoOutcome == [ret |-> NoPath, err |-> NoError, fs |-> <<>>]

InitState ==
    /\ fs = <<>>
    /\ open_files = {}
    /\ ret = NoPath
    /\ err = NoError
    /\ cmake_args = <<>>
    /\ trace = <<>>
    /\ runs = 0
    /\ first_out = NoOutcome

\* the spack defaults
DefaultStdArgs ==
    << <<"-G">>, <<"Unix Makefiles">>,
       <<"-DCMAKE_INSTALL_PREFIX=", "/prefix">>,
       <<"-D", "CMAKE_BUILD_TYPE", "=RelWithDebInfo">>,
       <<"-DCMAKE_VERBOSE_MAKEFILE=ON">>,
       <<"-DCMAKE_INSTALL_", "RPATH", "_USE_LINK_PATH=FALSE">>,
       <<"-DCMAKE_INSTALL_", "RPATH", "=/prefix/lib">> >>

\* create_host_config, for every build specification and environment
Init ==
    /\ pkg \in Recipes
    /\ spec \in [Queried(pkg) -> BOOLEAN]
    /\ deps \in {DeclaredDeps(pkg, spec) \cup t : t \in SUBSET Transitive(pkg, spec)}
    /\ env \in Envs(pkg, spec, deps)
    /\ std_cmake_args = DefaultStdArgs
    /\ cwd = BuildDir
    /\ pc = "caller"
    /\ InitState

Next == CallCreateHostConfig

Spec == Init /\ [][Next]_vars

----------------------------------------------------------------------------
(* install: the driver, for every list of default arguments *)

\* the kinds of default argument the driver tells apart
ArgPool ==
    { <<"-DCMAKE_INSTALL_PREFIX=", "/prefix">>,
      <<"-D", "CMAKE_BUILD_TYPE", "=RelWithDebInfo">>,
      <<"-DCMAKE_INSTALL_", "RPATH", "_USE_LINK_PATH=FALSE">>,
      <<"-DCMAKE_INSTALL_", "RPATH", "=/prefix/lib">> }

ArgLists == UNION {[1..n -> ArgPool] : n \in 0..MaxArgs}

\* the variants the driver's own branches and the forcing rule read
DriverVariants == {"shared", "cuda", "python"}

Defaults(p) ==
    IF p = "vtkh" THEN VtkhDefaults
    ELSE [v \in Queried("ascent") |-> IF v = "cmake" THEN FALSE ELSE AscentDefaults[v]]

DriverSpecs(p) ==
    {s \in [Queried(p) -> BOOLEAN] :
        \A v \in Queried(p) \ DriverVariants : s[v] = Defaults(p)[v]}

DriverEnvs(p, s, d) ==
    {e \in Envs(p, s, d) :
        /\ e.SPACK_CXX = "/usr/bin/g++"
        /\ e.has_fc /\ e.fc_isfile
        /\ e.SYS_TYPE = None
        /\ e.compiler_flags = NoFlags
        /\ e.py_site_pkgs_dir = None
        /\ e.mpiexec_isfile = (Has(s, "mpi") /\ "mpi" \in d)}

InitInstall ==
    /\ pkg \in Recipes
    /\ spec \in DriverSpecs(pkg)
    /\ deps \in {DeclaredDeps(pkg, spec) \cup t : t \in SUBSET Transitive(pkg, spec)}
    /\ env \in DriverEnvs(pkg, spec, deps)
    /\ std_cmake_args \in ArgLists
    /\ cwd = StageDir
    /\ pc = "start"
    /\ InitState

NextInstall ==
    \/ EnterBuildDir
    \/ GenerateHostConfig
    \/ Configure
    \/ Build
    \/ MakeInstall
    \/ CopyHostConfig

SpecInstall == InitInstall /\ [][NextInstall]_vars

----------------------------------------------------------------------------
(* Properties of the generated host-config *)

\* the last call of create_host_config returned
Returned == runs > 0 /\ ret # NoPath

\* the lines of the file the last call returned
HostConfig == fs[ret]

\* the values of the cache entries named n, one per entry
EntryIndexes(lines, n) ==
    {i \in DOMAIN lines : lines[i].k = "set" /\ lines[i].name = n}
EntryValues(lines, n) == {lines[i].value : i \in EntryIndexes(lines, n)}

\* the ON/OFF cache variable of each flag, and the flag value it stands for
FlagEntries(p, s) ==
    IF p = "vtkh"
    THEN [BUILD_SHARED_LIBS |-> Has(s, "shared") /\ ~Has(s, "cuda"),
          ENABLE_MPI |-> Has(s, "mpi"),
          ENABLE_CUDA |-> Has(s, "cuda"),
          ENABLE_OPENMP |-> Has(s, "openmp"),
          ENABLE_SERIAL |-> Has(s, "serial"),
          ENABLE_LOGGING |-> Has(s, "logging"),
          ENABLE_FILTER_CONTOUR_TREE |-> Has(s, "contourtree"),
          ENABLE_TESTS |-> Has(s, "test"),
          BUILD_TESTING |-> Has(s, "test")]
    ELSE [BUILD_SHARED_LIBS |-> Has(s, "shared"),
          ENABLE_MPI |-> Has(s, "mpi"),
          ENABLE_CUDA |-> Has(s, "cuda"),
          ENABLE_OPENMP |-> Has(s, "openmp"),
          ENABLE_PYTHON |-> Has(s, "python"),
          ENABLE_DOCS |-> Has(s, "doc") /\ Has(s, "python")]

FlagVariables(p) ==
    IF p = "vtkh" THEN DOMAIN FlagEntries(p, VtkhDefaults)
    ELSE DOMAIN FlagEntries(p, AscentDefaults) \cup {"ENABLE_FORTRAN"}

\* C1: in the file create_host_config wrote, every ON/OFF cache variable that
\* corresponds to a flag of the recipe has exactly one entry: none is missing
\* and none is written more than once.
C1_ExactlyOneEntryPerFlag ==
    Returned =>
        \A n \in FlagVariables(pkg) : Cardinality(EntryIndexes(HostConfig, n)) = 1

\* C2: whenever cuda is enabled the file sets BUILD_SHARED_LIBS to OFF, for
\* either value of shared, in vtk-h and in ascent.
C2_CudaForcesStatic ==
    (Returned /\ Has(spec, "cuda")) =>
        EntryValues(HostConfig, "BUILD_SHARED_LIBS") = {"OFF"}

\* C2 (amended): with cuda enabled, vtk-h's file sets BUILD_SHARED_LIBS to OFF
\* for either value of shared; ascent's file sets it to ON exactly when shared
\* is enabled.
C2_CudaForcesStaticInVtkh ==
    (Returned /\ Has(spec, "cuda")) =>
        /\ pkg = "vtkh" => EntryValues(HostConfig, "BUILD_SHARED_LIBS") = {"OFF"}
        /\ pkg = "ascent" =>
             EntryValues(HostConfig, "BUILD_SHARED_LIBS")
                = {IF Has(spec, "shared") THEN "ON" ELSE "OFF"}

C2_Witness == Returned /\ pkg = "vtkh" /\ Has(spec, "cuda") /\ Has(spec, "shared")

\* C3: the value of every ON/OFF feature entry reflects its flag: it is ON
\* exactly when the flag is enabled (BUILD_SHARED_LIBS: when shared is enabled
\* and cuda is not forcing static; ENABLE_TESTS and BUILD_TESTING: when test
\* is enabled).
C3_EntriesReflectFlags ==
    Returned =>
        \A n \in DOMAIN FlagEntries(pkg, spec) :
            EntryValues(HostConfig, n)
                = {IF FlagEntries(pkg, spec)[n] THEN "ON" ELSE "OFF"}

----------------------------------------------------------------------------
(* Properties of install *)

\* the steps of a successful install, in order
InstallSteps ==
    <<"working_dir", "create_host_config", "cmake", "make", "make install",
      "install host-config">>

IsPrefix(a, b) == Len(a) <= Len(b) /\ a = SubSeq(b, 1, Len(a))

\* the copy of the host-config in the install prefix
HostConfigCopies == {p \in DOMAIN fs : Len(p) = 3 /\ SubSeq(p, 1, 2) = Prefix /\ p[3] # "lib"}

\* C4: a successful install ran each step exactly once, in the order: build
\* directory, host-config generation, configure, build, install, copy of the
\* host-config into the prefix; at no point do the steps run so far leave
\* that order, and the copy is in the prefix only after make install.
C4_InstallOrder ==
    /\ IsPrefix(trace, InstallSteps)
    /\ pc = "done" => trace = InstallSteps
    /\ HostConfigCopies # {} => (Prefix \o <<"lib">>) \in DOMAIN fs

C4_Witness == pc = "done" /\ HostConfigCopies # {}

\* C5: when a step of install fails, install is over at that step: the failing
\* step is the last one run, nothing is enabled any more, the host-config is
\* not copied into the prefix, and no step has run twice.
C5_AbortOnFirstFailure ==
    /\ err # NoError =>
          /\ pc = "aborted"
          /\ trace # <<>> /\ IsPrefix(trace, InstallSteps)
          /\ err.type = "ProcessError" => trace[Len(trace)] = err.msg
          /\ err.type # "ProcessError" => trace[Len(trace)] = "create_host_config"
          /\ HostConfigCopies = {}
          /\ ~ENABLED NextInstall
    /\ \A i, j \in DOMAIN trace : trace[i] = trace[j] => i = j

C5_Witness == pc = "aborted" /\ err = ProcessError("make") /\ trace[Len(trace)] = "make"

\* an argument mentions tok
Mentions(arg, tok) == \E i \in DOMAIN arg : arg[i] = tok

\* the default arguments among cmake_args: what precedes the driver's own
DriverOwnArgs == IF pkg = "vtkh" THEN 4 ELSE 3
PassedDefaults == SubSeq(cmake_args, 1, Len(cmake_args) - DriverOwnArgs)

Configured == "cmake" \in {trace[i] : i \in DOMAIN trace}

\* C6: in a static build no default argument that mentions RPATH is passed to
\* cmake, and the other default arguments the driver retains are passed in
\* their original order; in a shared build no default argument is dropped on
\* account of RPATH.
C6_RpathArguments ==
    Configured =>
        LET Retained(a) == pkg = "vtkh" => ~Mentions(a, "CMAKE_BUILD_TYPE")
            Static(a) == Retained(a) /\ ~Mentions(a, "RPATH")
        IN IF Has(spec, "shared")
           THEN PassedDefaults = SelectSeq(std_cmake_args, Retained)
           ELSE /\ \A i \in DOMAIN PassedDefaults : ~Mentions(PassedDefaults[i], "RPATH")
                /\ PassedDefaults = SelectSeq(std_cmake_args, Static)

C6_Witness ==
    /\ Configured /\ ~Has(spec, "shared")
    /\ \E i, j \in DOMAIN std_cmake_args :
          /\ i < j
          /\ Mentions(std_cmake_args[i], "RPATH")
          /\ ~Mentions(std_cmake_args[j], "RPATH")
          /\ ~Mentions(std_cmake_args[j], "CMAKE_BUILD_TYPE")

----------------------------------------------------------------------------
(* Properties of create_host_config *)

\* C7: the value create_host_config returns is an absolute path; the file at
\* that path exists, is closed and is not empty: it starts with the header,
\* holds the two compiler entries and ends with the end marker.
C7_ReturnsAbsolutePathOfWrittenFile ==
    Returned =>
        /\ isabs(ret)
        /\ ret \in DOMAIN fs
        /\ ret \notin open_files
        /\ HostConfig # <<>>
        /\ HostConfig[1] = Text(Bar)
        /\ EntryIndexes(HostConfig, "CMAKE_C_COMPILER") # {}
        /\ EntryIndexes(HostConfig, "CMAKE_CXX_COMPILER") # {}
        /\ SubSeq(HostConfig, Len(HostConfig) - 2, Len(HostConfig))
             = <<Text(Bar), Text("# end spack generated host-config"), Text(Bar)>>

C7_Witness == Returned /\ pkg = "ascent" /\ Len(HostConfig) > 3

CMakeMissing == ~Has(spec, "cmake") /\ env.which_cmake = None

\* C9: in ascent, when cmake is not taken from the spec and cannot be located,
\* create_host_config raises an error with a message and returns no path;
\* when cmake can be located this error is not raised.
C9_MissingCMakeIsAnError ==
    (pkg = "ascent" /\ runs > 0) =>
        /\ CMakeMissing =>
              /\ err.type = "RuntimeError" /\ err.msg # ""
              /\ ret = NoPath
        /\ ~CMakeMissing => err.type # "RuntimeError"

C9_Witness == pkg = "ascent" /\ runs > 0 /\ CMakeMissing /\ err.type = "RuntimeError"

\* no Fortran compiler is configured, or SPACK_FC is not an existing file
FortranMissing == ~env.has_fc \/ ~env.fc_isfile

\* C10: in ascent a missing Fortran compiler is not an error: when cmake is
\* located and the spec holds every dependency that is looked up, generation
\* completes, with ENABLE_FORTRAN written once as OFF and no
\* CMAKE_Fortran_COMPILER entry; and in every file generated,
\* CMAKE_Fortran_COMPILER is written exactly when ENABLE_FORTRAN is ON.
C10_MissingFortranIsNotAnError ==
    (pkg = "ascent" /\ runs > 0) =>
        /\ (FortranMissing /\ ~CMakeMissing /\ AscentLookups(spec) \subseteq deps) =>
              Returned
        /\ (FortranMissing /\ Returned) =>
              /\ Cardinality(EntryIndexes(HostConfig, "ENABLE_FORTRAN")) = 1
              /\ EntryValues(HostConfig, "ENABLE_FORTRAN") = {"OFF"}
              /\ EntryIndexes(HostConfig, "CMAKE_Fortran_COMPILER") = {}
        /\ Returned =>
              (EntryIndexes(HostConfig, "CMAKE_Fortran_COMPILER") # {}
                 <=> EntryValues(HostConfig, "ENABLE_FORTRAN") = {"ON"})

C10_Witness ==
    /\ pkg = "ascent" /\ Returned /\ env.has_fc /\ ~env.fc_isfile
    /\ EntryValues(HostConfig, "ENABLE_FORTRAN") = {"OFF"}

----------------------------------------------------------------------------
(* Order and shape of the entries *)

RECURSIVE EntryNames(_)
\* the names of the cache entries of a file, in the order written
EntryNames(lines) ==
    IF lines = <<>> THEN <<>>
    ELSE (IF Head(lines).k = "set" THEN <<Head(lines).name>> ELSE <<>>)
         \o EntryNames(Tail(lines))

CompilerEntryNames == {"CMAKE_C_COMPILER", "CMAKE_CXX_COMPILER", "CMAKE_Fortran_COMPILER"}
DependencyEntryNames == {"CONDUIT_DIR", "VTKM_DIR", "VTKH_DIR", "MFEM_DIR", "ADIOS_DIR"}

\* the block of an entry: 1 compiler, 2 feature ON/OFF, 3 dependency location,
\* 0 for an entry of none of the three
Block(line) ==
    IF line.name \in CompilerEntryNames THEN 1
    ELSE IF line.name \in DependencyEntryNames THEN 3
    ELSE IF line.value \in {"ON", "OFF"} THEN 2
    ELSE 0

\* C11: the entries are grouped by block: every compiler entry is written
\* before every feature ON/OFF entry, and every feature ON/OFF entry before
\* every dependency-location entry.
C11_EntriesGroupedByBlock ==
    Returned =>
        \A i, j \in DOMAIN HostConfig :
            (/\ HostConfig[i].k = "set" /\ HostConfig[j].k = "set"
             /\ Block(HostConfig[i]) # 0 /\ Block(HostConfig[j]) # 0
             /\ Block(HostConfig[i]) < Block(HostConfig[j])) => i < j

\* the one order in which each recipe writes its entries
EntryOrder(p) ==
    IF p = "vtkh"
    THEN <<"CMAKE_C_COMPILER", "CMAKE_CXX_COMPILER", "BUILD_SHARED_LIBS",
           "CMAKE_C_FLAGS", "CMAKE_CXX_FLAGS", "CMAKE_Fortran_FLAGS",
           "ENABLE_TESTS", "BUILD_TESTING", "ENABLE_LOGGING",
           "ENABLE_FILTER_CONTOUR_TREE", "ENABLE_OPENMP", "VTKM_DIR",
           "ENABLE_SERIAL", "ENABLE_LOGGING", "ENABLE_MPI", "MPI_C_COMPILER",
           "MPI_CXX_COMPILER", "MPI_Fortran_COMPILER", "MPIEXEC_EXECUTABLE",
           "MPIEXEC", "ENABLE_CUDA", "CMAKE_CUDA_HOST_COMPILER">>
    ELSE <<"CMAKE_C_COMPILER", "CMAKE_CXX_COMPILER", "ENABLE_FORTRAN",
           "CMAKE_Fortran_COMPILER", "BUILD_SHARED_LIBS", "CONDUIT_DIR",
           "ENABLE_PYTHON", "PYTHON_EXECUTABLE", "PYTHON_MODULE_INSTALL_PREFIX",
           "ENABLE_DOCS", "SPHINX_EXECUTABLE", "ENABLE_MPI", "MPI_C_COMPILER",
           "MPI_CXX_COMPILER", "MPI_Fortran_COMPILER", "MPIEXEC_EXECUTABLE",
           "MPIEXEC", "ENABLE_CUDA", "ENABLE_OPENMP", "VTKM_DIR", "VTKH_DIR",
           "MFEM_DIR", "ADIOS_DIR">>

RECURSIVE IsSubsequence(_, _)
IsSubsequence(a, b) ==
    IF a = <<>> THEN TRUE
    ELSE IF b = <<>> THEN FALSE
    ELSE IF Head(a) = Head(b) THEN IsSubsequence(Tail(a), Tail(b))
    ELSE IsSubsequence(a, Tail(b))

\* the entry whose place depends on cuda in vtk-h
NotVtkmCuda(n) == n # "VTKm_ENABLE_CUDA:BOOL"

\* C11 (amended): the order of the entries is fixed but not grouped by block:
\* CMAKE_C_COMPILER and CMAKE_CXX_COMPILER are the first two entries, and the
\* entries of every generated file, vtk-h's VTKm_ENABLE_CUDA:BOOL left out,
\* follow one order per recipe whatever the flags.
C11_EntriesInFixedOrder ==
    Returned =>
        /\ SubSeq(EntryNames(HostConfig), 1, 2) = <<"CMAKE_C_COMPILER", "CMAKE_CXX_COMPILER">>
        /\ IsSubsequence(SelectSeq(EntryNames(HostConfig), NotVtkmCuda), EntryOrder(pkg))

C11_Witness ==
    /\ Returned /\ pkg = "ascent" /\ Has(spec, "adios") /\ Has(spec, "mfem")
    /\ Has(spec, "python") /\ ~Has(spec, "mpi")


\* a name split at its colons: one token for a plain variable name
NameTokens(n) ==
    IF n = "VTKm_ENABLE_CUDA:BOOL" THEN <<"VTKm_ENABLE_CUDA", ":", "BOOL">> ELSE <<n>>

PlainName(n) == Len(NameTokens(n)) = 1

\* the entry at line i is followed by exactly one blank line
OneBlankAfter(lines, i) ==
    /\ i < Len(lines) /\ lines[i + 1] = Blank
    /\ i + 2 <= Len(lines) => lines[i + 2] # Blank

\* C12: every cache entry is set(<NAME> "<VALUE>" CACHE <TYPE> "") followed by
\* one blank line, with <NAME> a plain variable name; in vtk-h <TYPE> is BOOL
\* exactly when the value is ON or OFF and PATH otherwise.
C12_EntryShape ==
    Returned =>
        \A i \in DOMAIN HostConfig :
            HostConfig[i].k = "set" =>
                /\ OneBlankAfter(HostConfig, i)
                /\ PlainName(HostConfig[i].name)
                /\ HostConfig[i].vtype \in {"BOOL", "PATH"}
                /\ pkg = "vtkh" =>
                      (HostConfig[i].vtype = "BOOL" <=> HostConfig[i].value \in {"ON", "OFF"})


----------------------------------------------------------------------------
(* Agreement of install and the host-config *)

\* the number of arguments of args that mention RPATH
RpathCount(args) == Len(SelectSeq(args, LAMBDA a : Mentions(a, "RPATH")))

\* C13: install and the host-config it generated agree on linkage: when the
\* file sets BUILD_SHARED_LIBS to OFF no argument passed to cmake mentions
\* RPATH, and when it sets ON every default argument mentioning RPATH is
\* passed; in particular for vtk-h with cuda and shared both enabled.
C13_LinkageAgrees ==
    Configured =>
        /\ EntryValues(fs[ret], "BUILD_SHARED_LIBS") = {"OFF"} =>
              RpathCount(cmake_args) = 0
        /\ EntryValues(fs[ret], "BUILD_SHARED_LIBS") = {"ON"} =>
              RpathCount(cmake_args) = RpathCount(std_cmake_args)


----------------------------------------------------------------------------
(* Declared dependencies of ascent *)

\* the dependencies create_host_config is said to read under s
ReadsOf(s) ==
    {"conduit"}
    \cup (IF Has(s, "python") THEN {"python"} ELSE {})
    \cup (IF Has(s, "doc") /\ Has(s, "python") THEN {"py-sphinx"} ELSE {})
    \cup {d \in {"mpi", "vtkh", "mfem", "adios"} : Has(s, d)}

\* C14: for every variant combination of ascent, each dependency that
\* create_host_config reads is declared under that combination, so generation
\* never fails on a dependency that is not in the spec.
C14_ReadsAreDeclared ==
    (pkg = "ascent" /\ runs > 0) =>
        /\ ReadsOf(spec) \subseteq AscentDeclaredDeps(spec)
        /\ err.type = "KeyError" => err.msg \notin ReadsOf(spec)


----------------------------------------------------------------------------
(* pmt and babelflow: cmake_args and cmake_install *)

\* here cmake_args holds the configure arguments the recipe has contributed

NameError(n) == [type |-> "NameError", msg |-> n]

CMakeRecipes == {"pmt", "babelflow"}

\* depends_on
CMakeDeclaredDeps(p) == IF p = "pmt" THEN {"babelflow"} ELSE {"mpi"}

\* the names a method of the recipe can use unqualified: what the module
\* imports and defines, and the build commands; the methods of the class
\* (cmake_args, cmake_install) are attributes of self, not names of the module
ModuleGlobals(p) ==
    {"make", "cmake", "std_cmake_args", "variant", "depends_on", "version"}
    \cup {IF p = "pmt" THEN "Pmt" ELSE "Babelflow"}

\* Pmt.cmake_args(self)
PmtCMakeArgs == << <<"-DLIBRARY_ONLY=ON">> >>

\* the argument cmake_install appends
SharedLibsArg(s) ==
    IF Has(s, "shared") THEN <<"-D", "BUILD_SHARED_LIBS", "=ON">>
    ELSE <<"-D", "BUILD_SHARED_LIBS", "=OFF">>

\* cmake_install(self, spec, prefix): cmake_args is neither a parameter nor a
\* local, so it is looked up among the module's names
cmake_install(p, s, args, made, installed) ==
    IF "cmake_args" \notin ModuleGlobals(p)
    THEN [err |-> NameError("cmake_args"), args |-> args, trace |-> <<>>]
    ELSE [err |-> IF ~made THEN ProcessError("make")
                  ELSE IF ~installed THEN ProcessError("make install")
                  ELSE NoError,
          args |-> Append(args, SharedLibsArg(s)),
          trace |-> IF made THEN <<"make", "make install">> ELSE <<"make">>]

\* self.cmake_args() is called
CallCMakeArgs ==
    /\ pc = "recipe"
    /\ pkg = "pmt"
    /\ cmake_args' = PmtCMakeArgs
    /\ UNCHANGED <<pkg, spec, deps, env, std_cmake_args, cwd, fs, open_files,
                   ret, err, pc, trace, runs, first_out>>

\* self.cmake_install(spec, prefix) is called
CallCMakeInstall ==
    /\ pc = "recipe"
    /\ \E made, installed \in BOOLEAN :
          LET r == cmake_install(pkg, spec, cmake_args, made, installed)
          IN /\ cmake_args' = r.args
             /\ trace' = trace \o r.trace
             /\ err' = r.err
             /\ pc' = IF r.err = NoError THEN "done" ELSE "aborted"
    /\ UNCHANGED <<pkg, spec, deps, env, std_cmake_args, cwd, fs, open_files,
                   ret, runs, first_out>>

InitCMake ==
    /\ pkg \in CMakeRecipes
    /\ spec \in [{"shared"} -> BOOLEAN]
    /\ deps = CMakeDeclaredDeps(pkg)
    /\ env = [SPACK_CC |-> "/usr/bin/gcc", SPACK_CXX |-> "/usr/bin/g++"]
    /\ std_cmake_args \in ArgLists
    /\ cwd = StageDir
    /\ pc = "recipe"
    /\ InitState

NextCMake ==
    \/ CallCMakeArgs
    \/ CallCMakeInstall

SpecCMake == InitCMake /\ [][NextCMake]_vars

\* cmake_install was called
CMakeInstallCalled == pc \in {"done", "aborted"} /\ pkg \in CMakeRecipes

\* the arguments of args that set BUILD_SHARED_LIBS
SharedLibsArgs(args) == SelectSeq(args, LAMBDA a : Mentions(a, "BUILD_SHARED_LIBS"))

\* C15: for pmt and babelflow, once the step that adds the linkage option has
\* run, it has completed without error and the configure arguments contain
\* exactly one BUILD_SHARED_LIBS setting: =ON when shared is enabled, =OFF
\* when it is disabled.
C15_SharedFlagSetsLinkage ==
    CMakeInstallCalled =>
        /\ err = NoError
        /\ SharedLibsArgs(cmake_args)
              = << <<"-D", "BUILD_SHARED_LIBS",
                     IF Has(spec, "shared") THEN "=ON" ELSE "=OFF">> >>


----------------------------------------------------------------------------
(* The MPI entries *)

\* the number of entries named n in lines
Entries(lines, n) == Cardinality(EntryIndexes(lines, n))

\* C16: the file holds at most one of MPIEXEC_EXECUTABLE and MPIEXEC; one of
\* them is written exactly when mpi is enabled and the mpiexec file exists,
\* and it is MPIEXEC_EXECUTABLE exactly when the cmake version is at least
\* 3.10; with mpi disabled neither is written, no MPI_*_COMPILER entry is
\* written, and ENABLE_MPI is OFF.
C16_MpiexecEntry ==
    Returned =>
        LET nNew == Entries(HostConfig, "MPIEXEC_EXECUTABLE")
            nOld == Entries(HostConfig, "MPIEXEC")
            from310 == env.cmake_version[1] * 100 + env.cmake_version[2] >= 310
        IN /\ nNew + nOld <= 1
           /\ nNew + nOld = 1 <=> (Has(spec, "mpi") /\ env.mpiexec_isfile)
           /\ nNew = 1 => from310
           /\ nOld = 1 => ~from310
           /\ ~Has(spec, "mpi") =>
                 /\ nNew + nOld = 0
                 /\ \A n \in {"MPI_C_COMPILER", "MPI_CXX_COMPILER", "MPI_Fortran_COMPILER"} :
                       Entries(HostConfig, n) = 0
                 /\ EntryValues(HostConfig, "ENABLE_MPI") = {"OFF"}

C16_Witness ==
    /\ Returned /\ Has(spec, "mpi") /\ env.mpiexec_isfile
    /\ Entries(HostConfig, "MPIEXEC") = 1
    /\ Entries(HostConfig, "MPI_C_COMPILER") = 1


----------------------------------------------------------------------------
(* The build type of vtk-h *)

ReleaseArg == <<"-D", "CMAKE_BUILD_TYPE", "=Release">>

\* C17: for every list of default arguments, the arguments vtk-h's install
\* passes to cmake hold exactly one CMAKE_BUILD_TYPE setting, Release: no
\* retained default argument mentions CMAKE_BUILD_TYPE, -DCMAKE_BUILD_TYPE=Release
\* follows the retained defaults once, and the list ends with -C, the
\* host-config path and the source directory.
C17_ReleaseBuildType ==
    (Configured /\ pkg = "vtkh") =>
        LET n == Len(cmake_args)
        IN /\ n >= 4
           /\ SelectSeq(cmake_args, LAMBDA a : Mentions(a, "CMAKE_BUILD_TYPE"))
                 = <<ReleaseArg>>
           /\ \A i \in 1..(n - 4) :
                 /\ ~Mentions(cmake_args[i], "CMAKE_BUILD_TYPE")
                 /\ \E j \in DOMAIN std_cmake_args : std_cmake_args[j] = cmake_args[i]
           /\ cmake_args[n - 3] = ReleaseArg
           /\ SubSeq(cmake_args, n - 2, n) = << <<"-C">>, ret, <<"..", "src">> >>
           /\ ret # NoPath /\ ret \in DOMAIN fs

C17_Witness ==
    /\ Configured /\ pkg = "vtkh"
    /\ \E i, j \in DOMAIN std_cmake_args :
          /\ i < j
          /\ Mentions(std_cmake_args[i], "CMAKE_BUILD_TYPE")
          /\ std_cmake_args[j] = <<"-DCMAKE_INSTALL_PREFIX=", "/prefix">>
    /\ Len(cmake_args) > 4

====
